---- MODULE Spec2Model ----
(***************************************************************************)
(* Leave-request workflow of services/vacation_service.py (VacationService) *)
(* over the User and Vacation tables.                                       *)
(*                                                                          *)
(* Dates are proleptic ordinals (date.toordinal); an ISO date string is     *)
(* modelled by the ordinal it denotes and a malformed string by             *)
(* MalformedDate.  Day quantities (requested, used, total, remaining) are   *)
(* counted in HALF-DAYS, so Python's 0.5 is 1 and one calendar day is 2.    *)
(* A role string is modelled by the list of tokens role.split(',') yields;  *)
(* a token keeps the blanks the string had around it.                       *)
(***************************************************************************)
EXTENDS Integers, Sequences, FiniteSets, TLC

VARIABLES
    users,          \* User table: id -> [username, join_date, part, role]
    vacations,      \* Vacation table: id -> row
    next_id,        \* next primary key of the Vacation table
    today,          \* date.today()
    result,         \* what the most recent service call returned
    notified,       \* notifications created by the most recent service call
    approval_list,  \* what the most recent get_pending_approvals returned
    calls           \* service calls in progress, one per concurrent request

vars == <<users, vacations, next_id, today, result, notified, approval_list, calls>>

----------------------------------------------------------------------------
(* Bounds of the model *)

MaxId == 2          \* at most this many Vacation rows are ever created
MaxTicks == 2       \* at most this many midnights pass

----------------------------------------------------------------------------
(* constants.py / models.py values *)

PENDING_PART_LEADER == "pending_part_leader"
PENDING_TEAM_LEADER == "pending_team_leader"
APPROVED == "approved"
REJECTED == "rejected"

TEAM_LEADER == "team_leader"
PART_LEADER == "part_leader"
MEMBER == "member"

\* role tokens written with a blank after the comma ("a, b")
PADDED_TEAM_LEADER == " team_leader"
PADDED_PART_LEADER == " part_leader"
PADDED_MEMBER == " member"

\* str.strip() of one role token
strip(tok) ==
    CASE tok = PADDED_TEAM_LEADER -> TEAM_LEADER
      [] tok = PADDED_PART_LEADER -> PART_LEADER
      [] tok = PADDED_MEMBER -> MEMBER
      [] OTHER -> tok

MalformedDate == 0
Today0 == 5

\* the dates a caller writes into the form: yesterday, today, tomorrow
Yesterday == Today0 - 1
Tomorrow == Today0 + 1
Days == Yesterday..Tomorrow
IsoStrings == Days \cup {MalformedDate}

VacationTypes == {"annual", "am_half_day", "sick"}

\* date.fromisoformat raises ValueError on a malformed string
fromisoformat_raises(s) == s = MalformedDate
fromisoformat(s) == s

----------------------------------------------------------------------------
(* The employee directory the workflow reads *)

InitUsers ==
    1 :> [username |-> "kim",  join_date |-> 1, part |-> "dev", role |-> <<MEMBER>>] @@
    2 :> [username |-> "lee",  join_date |-> 1, part |-> "dev", role |-> <<PART_LEADER>>] @@
    3 :> [username |-> "park", join_date |-> 1, part |-> "ops", role |-> <<MEMBER, PART_LEADER>>] @@
    4 :> [username |-> "choi", join_date |-> 1, part |-> "dev", role |-> <<TEAM_LEADER>>] @@
    5 :> [username |-> "han",  join_date |-> 1, part |-> "ops", role |-> <<TEAM_LEADER, PART_LEADER>>] @@
    6 :> [username |-> "yoon", join_date |-> 1, part |-> "dev", role |-> <<MEMBER, PADDED_TEAM_LEADER>>] @@
    7 :> [username |-> "shin", join_date |-> Today0 - 1, part |-> "dev", role |-> <<MEMBER>>] @@
    8 :> [username |-> "jung", join_date |-> 1, part |-> "ops", role |-> <<MEMBER>>] @@
    9 :> [username |-> "moon", join_date |-> 1, part |-> "qa", role |-> <<MEMBER>>]

\* usernames a caller may pass; "ghost" is not in the User table
Usernames == {"kim", "lee", "park", "choi", "han", "ghost"}
\* the callers of Submit the model enumerates
Applicants == {"kim", "lee", "shin", "ghost"}

\* User.query.filter_by(username=...).first()
UserIdsByName(name) == {u \in DOMAIN users : users[u].username = name}
UserExists(name) == UserIdsByName(name) # {}
UserByName(name) == users[CHOOSE u \in UserIdsByName(name) : TRUE]

----------------------------------------------------------------------------
(* utils/vacation_calculator.py (VacationCalculator) *)

ProbationDays == 3
BaseLeave == 3
SeniorLeave == 6
SeniorTenure == 5

can_use_annual_leave(join_date) == today - join_date >= ProbationDays

calculate_annual_leave(join_date) ==
    IF today - join_date >= SeniorTenure THEN SeniorLeave ELSE BaseLeave

----------------------------------------------------------------------------
(* Role tests *)

RECURSIVE SeqContains(_, _)
SeqContains(s, x) ==
    IF s = <<>> THEN FALSE
    ELSE IF Head(s) = x THEN TRUE ELSE SeqContains(Tail(s), x)

_is_team_leader(user_role) == SeqContains(user_role, TEAM_LEADER)

_is_part_leader(user_role) == SeqContains(user_role, PART_LEADER)

\* slip: only the team-leader may reject
_has_approval_permission_TeamOnly(user_role) == _is_team_leader(user_role)

_has_approval_permission(user_role) ==
    _is_part_leader(user_role) \/ _is_team_leader(user_role)

\* User.role.contains(r): substring match on the raw role string
role_contains(user_role, r) ==
    \E i \in 1..Len(user_role) : strip(user_role[i]) = r

\* slip: the two branches exchanged
_determine_approval_status_Swapped(user_role) ==
    IF _is_part_leader(user_role) THEN PENDING_PART_LEADER
    ELSE PENDING_TEAM_LEADER

_determine_approval_status(user_role) ==
    IF _is_part_leader(user_role) THEN PENDING_TEAM_LEADER
    ELSE PENDING_PART_LEADER

\* slip: a part-leader may approve in either pending status
_validate_approval_permission_AnyPending(approver_user, current_status) ==
    IF _is_team_leader(approver_user.role) /\ current_status = PENDING_TEAM_LEADER
    THEN [success |-> TRUE, new_status |-> APPROVED]
    ELSE IF /\ _is_part_leader(approver_user.role)
            /\ current_status \in {PENDING_PART_LEADER, PENDING_TEAM_LEADER}
    THEN [success |-> TRUE, new_status |-> PENDING_TEAM_LEADER]
    ELSE [success |-> FALSE, new_status |-> current_status]

\* slip: the part-leader's approval is final
_validate_approval_permission_SkipTeam(approver_user, current_status) ==
    IF _is_team_leader(approver_user.role) /\ current_status = PENDING_TEAM_LEADER
    THEN [success |-> TRUE, new_status |-> APPROVED]
    ELSE IF _is_part_leader(approver_user.role) /\ current_status = PENDING_PART_LEADER
    THEN [success |-> TRUE, new_status |-> APPROVED]
    ELSE [success |-> FALSE, new_status |-> current_status]

_validate_approval_permission(approver_user, current_status) ==
    IF _is_team_leader(approver_user.role) /\ current_status = PENDING_TEAM_LEADER
    THEN [success |-> TRUE, new_status |-> APPROVED]
    ELSE IF _is_part_leader(approver_user.role) /\ current_status = PENDING_PART_LEADER
    THEN [success |-> TRUE, new_status |-> PENDING_TEAM_LEADER]
    ELSE [success |-> FALSE, new_status |-> current_status]

----------------------------------------------------------------------------
(* Overlap and balance *)

\* slip: rejected requests are compared too
OverlapQuery_WithRejected(username) ==
    {v \in DOMAIN vacations : vacations[v].applicant = username}

\* the query of _check_vacation_overlap
OverlapQuery(username) ==
    {v \in DOMAIN vacations :
        /\ vacations[v].applicant = username
        /\ vacations[v].status \in
               {PENDING_PART_LEADER, PENDING_TEAM_LEADER, APPROVED}}

\* slip: a request may start on the day another one ends
ranges_overlap_Exclusive(new_start_date, new_end_date, existing_start, existing_end) ==
    ~(new_end_date <= existing_start \/ new_start_date > existing_end)

\* the test of the loop body of _check_vacation_overlap
ranges_overlap(new_start_date, new_end_date, existing_start, existing_end) ==
    ~(new_end_date < existing_start \/ new_start_date > existing_end)

_check_vacation_overlap(username, new_start_date, new_end_date) ==
    ~ \E v \in OverlapQuery(username) :
        ranges_overlap(new_start_date, new_end_date,
                       fromisoformat(vacations[v].start_date),
                       fromisoformat(vacations[v].end_date))

\* slip: a request waiting for the team-leader is not counted
UsedQuery_NoTeamPending(username) ==
    {v \in DOMAIN vacations :
        /\ vacations[v].applicant = username
        /\ vacations[v].status \in {APPROVED, PENDING_PART_LEADER}}

\* the query of _calculate_used_annual_leave
UsedQuery(username) ==
    {v \in DOMAIN vacations :
        /\ vacations[v].applicant = username
        /\ vacations[v].status \in
               {APPROVED, PENDING_PART_LEADER, PENDING_TEAM_LEADER}}

\* one pass of the loop body of _calculate_used_annual_leave (half-days)
used_days_of(vacation) ==
    IF vacation.vacation_type = "annual"
    THEN 2 * ((fromisoformat(vacation.end_date)
                 - fromisoformat(vacation.start_date)) + 1)
    ELSE IF vacation.vacation_type \in {"am_half_day", "pm_half_day"}
    THEN 1
    ELSE 0

RECURSIVE used_days_loop(_)
used_days_loop(S) ==
    IF S = {} THEN 0
    ELSE LET v == CHOOSE x \in S : TRUE
         IN  used_days_of(vacations[v]) + used_days_loop(S \ {v})

_calculate_used_annual_leave(username) == used_days_loop(UsedQuery(username))

\* requested_days of _check_annual_leave_balance (half-days)
requested_days(vacation_type, start_date, end_date) ==
    IF vacation_type = "annual" THEN 2 * ((end_date - start_date) + 1)
    ELSE IF vacation_type \in {"am_half_day", "pm_half_day"} THEN 1
    ELSE 0

\* slip: a request that uses up the balance exactly is refused
balance_exceeded_Inclusive(used_annual_leave, requested, total_annual_leave) ==
    used_annual_leave + requested >= total_annual_leave

\* the comparison of _check_annual_leave_balance
balance_exceeded(used_annual_leave, requested, total_annual_leave) ==
    used_annual_leave + requested > total_annual_leave

_check_annual_leave_balance(user_info, vacation_type, start_date, end_date) ==
    LET total_annual_leave == calculate_annual_leave(user_info.join_date)
        used_annual_leave == _calculate_used_annual_leave(user_info.username)
        requested == requested_days(vacation_type, start_date, end_date)
    IN  IF balance_exceeded(used_annual_leave, requested, total_annual_leave)
        THEN [success |-> FALSE,
              remaining |-> total_annual_leave - used_annual_leave]
        ELSE [success |-> TRUE, remaining |-> 0]

----------------------------------------------------------------------------
(* Notifications *)

\* slip: every part-leader is told, whatever the department
_send_application_notification_AllPartLeaders(user_info, status) ==
    IF status = PENDING_TEAM_LEADER
    THEN {[to |-> u, about |-> "application"] :
             u \in {x \in DOMAIN users : role_contains(users[x].role, TEAM_LEADER)}}
    ELSE {[to |-> u, about |-> "application"] :
             u \in {x \in DOMAIN users : role_contains(users[x].role, PART_LEADER)}}

_send_application_notification(user_info, status) ==
    IF status = PENDING_TEAM_LEADER
    THEN {[to |-> u, about |-> "application"] :
             u \in {x \in DOMAIN users : role_contains(users[x].role, TEAM_LEADER)}}
    ELSE LET matching == {x \in DOMAIN users :
                             /\ users[x].part = user_info.part
                             /\ role_contains(users[x].role, PART_LEADER)}
         IN  IF matching = {} THEN {}
             ELSE {[to |-> CHOOSE x \in matching : \A y \in matching : x <= y,
                    about |-> "application"]}

\* slip: the applicant is told of the first approval too
_send_approval_notification_ApplicantToo(vacation, new_status) ==
    IF new_status = PENDING_TEAM_LEADER
    THEN {[to |-> u, about |-> "part_leader_approved"] :
             u \in {x \in DOMAIN users : role_contains(users[x].role, TEAM_LEADER)}
                      \cup UserIdsByName(vacation.applicant)}
    ELSE IF new_status = APPROVED
    THEN {[to |-> u, about |-> "approved"] : u \in UserIdsByName(vacation.applicant)}
    ELSE {}

_send_approval_notification(vacation, new_status) ==
    IF new_status = PENDING_TEAM_LEADER
    THEN {[to |-> u, about |-> "part_leader_approved"] :
             u \in {x \in DOMAIN users : role_contains(users[x].role, TEAM_LEADER)}}
    ELSE IF new_status = APPROVED
    THEN {[to |-> u, about |-> "approved"] : u \in UserIdsByName(vacation.applicant)}
    ELSE {}

----------------------------------------------------------------------------
(* Service calls *)

Return(op, success, message, remaining) ==
    [op |-> op, success |-> success, message |-> message, remaining |-> remaining]

\* a return that touched neither table
Failed(op, message, remaining) ==
    /\ result' = Return(op, FALSE, message, remaining)
    /\ notified' = {}
    /\ UNCHANGED <<users, vacations, next_id, today, approval_list, calls>>

\* slip: the tenure gate is never applied
is_ineligible_Never(user_info) == FALSE

\* the tenure test of apply_vacation
is_ineligible(user_info) == ~can_use_annual_leave(user_info.join_date)

\* slip: today counts as past
is_past_date_Inclusive(start_date) == start_date <= today

\* the past-date test of apply_vacation
is_past_date(start_date) == start_date < today

apply_vacation(username, vacation_data) ==
    IF ~UserExists(username)
    THEN Failed("apply", "user_not_found", 0)
    ELSE
    LET user_info == UserByName(username) IN
    IF \/ fromisoformat_raises(vacation_data.start_date)
       \/ fromisoformat_raises(vacation_data.end_date)
    THEN Failed("apply", "error", 0)
    ELSE
    LET start_date == fromisoformat(vacation_data.start_date)
        end_date == fromisoformat(vacation_data.end_date)
        leave_check == _check_annual_leave_balance(
                           user_info, vacation_data.vacation_type, start_date, end_date)
        status == _determine_approval_status(user_info.role)
    IN
    IF is_past_date(start_date)
    THEN Failed("apply", "past_date", 0)
    ELSE IF is_ineligible(user_info)
    THEN Failed("apply", "ineligible", 0)
    ELSE IF ~_check_vacation_overlap(username, start_date, end_date)
    THEN Failed("apply", "overlap", 0)
    ELSE IF ~leave_check.success
    THEN Failed("apply", "balance_exceeded", leave_check.remaining)
    ELSE
        /\ next_id <= MaxId
        /\ vacations' = vacations @@
               (next_id :> [applicant |-> username,
                            vacation_type |-> vacation_data.vacation_type,
                            start_date |-> vacation_data.start_date,
                            end_date |-> vacation_data.end_date,
                            reason |-> vacation_data.reason,
                            backup |-> vacation_data.backup,
                            status |-> status])
        /\ next_id' = next_id + 1
        /\ notified' = _send_application_notification(user_info, status)
        /\ result' = Return("apply", TRUE, "applied", 0)
        /\ UNCHANGED <<users, today, approval_list, calls>>

\* slip: an approved request may still be cancelled
CancellableStatuses_WithApproved ==
    {PENDING_PART_LEADER, PENDING_TEAM_LEADER, APPROVED}

\* slip: a rejected request may be cancelled
CancellableStatuses_WithRejected ==
    {PENDING_PART_LEADER, PENDING_TEAM_LEADER, REJECTED}

\* slip: only the first tier may be cancelled
CancellableStatuses_PartOnly == {PENDING_PART_LEADER}

\* the statuses cancel_vacation deletes in
CancellableStatuses == {PENDING_PART_LEADER, PENDING_TEAM_LEADER}

\* slip: the row is not deleted, yet the cancellation is reported
cancel_vacation_KeepsRow(vacation_id, username) ==
    IF vacation_id \notin DOMAIN vacations
    THEN Failed("cancel", "error", 0)
    ELSE
    LET vacation == vacations[vacation_id] IN
    IF vacation.applicant # username
    THEN Failed("cancel", "not_applicant", 0)
    ELSE IF vacation.status \in CancellableStatuses
    THEN
        /\ result' = Return("cancel", TRUE, "cancelled", 0)
        /\ notified' = {}
        /\ UNCHANGED <<users, vacations, next_id, today, approval_list, calls>>
    ELSE Failed("cancel", "already_decided", 0)

cancel_vacation(vacation_id, username) ==
    IF vacation_id \notin DOMAIN vacations
    THEN Failed("cancel", "error", 0)
    ELSE
    LET vacation == vacations[vacation_id] IN
    IF vacation.applicant # username
    THEN Failed("cancel", "not_applicant", 0)
    ELSE IF vacation.status \in CancellableStatuses
    THEN
        /\ vacations' = [v \in DOMAIN vacations \ {vacation_id} |-> vacations[v]]
        /\ result' = Return("cancel", TRUE, "cancelled", 0)
        /\ notified' = {}
        /\ UNCHANGED <<users, next_id, today, approval_list, calls>>
    ELSE Failed("cancel", "already_decided", 0)

approve_vacation(vacation_id, approver_username) ==
    IF ~UserExists(approver_username)
    THEN Failed("approve", "approver_not_found", 0)
    ELSE IF vacation_id \notin DOMAIN vacations
    THEN Failed("approve", "error", 0)
    ELSE
    LET approver_user == UserByName(approver_username)
        vacation == vacations[vacation_id]
        current_status == vacation.status
        validation_result == _validate_approval_permission(approver_user, current_status)
    IN
    IF ~validation_result.success
    THEN Failed("approve", "no_permission", 0)
    ELSE
        /\ vacations' = [vacations EXCEPT
               ![vacation_id].status = validation_result.new_status]
        /\ notified' = _send_approval_notification(vacation, validation_result.new_status)
        /\ result' = Return("approve", TRUE, "approved", 0)
        /\ UNCHANGED <<users, next_id, today, approval_list, calls>>

\* the statuses reject_vacation rejects in
RejectableStatuses == {PENDING_PART_LEADER, PENDING_TEAM_LEADER}

reject_vacation(vacation_id, approver_username) ==
    IF ~UserExists(approver_username)
    THEN Failed("reject", "approver_not_found", 0)
    ELSE IF vacation_id \notin DOMAIN vacations
    THEN Failed("reject", "error", 0)
    ELSE
    LET approver_user == UserByName(approver_username)
        vacation == vacations[vacation_id]
    IN
    IF ~_has_approval_permission(approver_user.role)
    THEN Failed("reject", "no_permission", 0)
    ELSE IF vacation.status \notin RejectableStatuses
    THEN Failed("reject", "already_processed", 0)
    ELSE
        /\ vacations' = [vacations EXCEPT ![vacation_id].status = REJECTED]
        /\ notified' = {[to |-> u, about |-> "rejected"] :
                           u \in UserIdsByName(vacation.applicant)}
        /\ result' = Return("reject", TRUE, "rejected", 0)
        /\ UNCHANGED <<users, next_id, today, approval_list, calls>>

\* the rows of a query, in primary-key order
RECURSIVE rows_in_order(_)
rows_in_order(S) ==
    IF S = {} THEN <<>>
    ELSE LET v == CHOOSE x \in S : \A y \in S : x <= y
         IN  <<v>> \o rows_in_order(S \ {v})

\* slip: the part-leader is shown the requests of every department
get_pending_approvals_AnyDepartment(approver_username) ==
    IF ~UserExists(approver_username) THEN <<>>
    ELSE
    LET approver_user == UserByName(approver_username)
        for_part_leader ==
            {v \in DOMAIN vacations : vacations[v].status = PENDING_PART_LEADER}
        for_team_leader ==
            {v \in DOMAIN vacations : vacations[v].status = PENDING_TEAM_LEADER}
    IN  (IF _is_part_leader(approver_user.role)
         THEN rows_in_order(for_part_leader) ELSE <<>>)
        \o (IF _is_team_leader(approver_user.role)
            THEN rows_in_order(for_team_leader) ELSE <<>>)

\* the ids of the entries get_pending_approvals returns
get_pending_approvals(approver_username) ==
    IF ~UserExists(approver_username) THEN <<>>
    ELSE
    LET approver_user == UserByName(approver_username)
        for_part_leader ==
            {v \in DOMAIN vacations :
                /\ vacations[v].status = PENDING_PART_LEADER
                /\ UserExists(vacations[v].applicant)
                /\ UserByName(vacations[v].applicant).part = approver_user.part}
        for_team_leader ==
            {v \in DOMAIN vacations : vacations[v].status = PENDING_TEAM_LEADER}
    IN  (IF _is_part_leader(approver_user.role)
         THEN rows_in_order(for_part_leader) ELSE <<>>)
        \o (IF _is_team_leader(approver_user.role)
            THEN rows_in_order(for_team_leader) ELSE <<>>)

\* the approvals page asks for the list; nothing is written
list_pending_approvals(approver_username) ==
    /\ approval_list' = get_pending_approvals(approver_username)
    /\ UNCHANGED <<users, vacations, next_id, today, result, notified, calls>>

----------------------------------------------------------------------------

\* primary keys a caller may pass; a key not in the table gives 404
Ids == 1..MaxId

\* the concurrent requests the server works on, and a request not started
Workers == {1, 2}
Idle == [pc |-> "idle"]

Init ==
    /\ users = InitUsers
    /\ vacations = <<>>
    /\ next_id = 1
    /\ today = Today0
    /\ result = Return("none", FALSE, "", 0)
    /\ notified = {}
    /\ approval_list = <<>>
    /\ calls = [w \in Workers |-> Idle]

\* the form fields of /apply (reason and backup are free text)
VacationData(types, dates) ==
    [vacation_type : types, start_date : dates, end_date : dates,
     reason : {"r"}, backup : {"b"}]

(* Approval workflow: every employee acts; the requests offered are the    *)
(* single-day annual ones of yesterday, today and tomorrow and, of every   *)
(* kind and end date, the ones that start yesterday                        *)
WorkflowDates == {MalformedDate, Yesterday, Today0, Tomorrow}
OneDayData ==
    {d \in VacationData({"annual"}, WorkflowDates) : d.start_date = d.end_date}
YesterdayData ==
    {d \in VacationData(VacationTypes, WorkflowDates) : d.start_date = Yesterday}
WorkflowData == OneDayData \cup YesterdayData

Submit == \E u \in Applicants, d \in WorkflowData : apply_vacation(u, d)
Cancel == \E id \in Ids, u \in Usernames : cancel_vacation(id, u)
Approve == \E id \in Ids, u \in Usernames : approve_vacation(id, u)
Reject == \E id \in Ids, u \in Usernames : reject_vacation(id, u)

Next == Submit \/ Cancel \/ Approve \/ Reject

Spec == Init /\ [][Next]_vars

(* Admission checks: a part-leader applies for annual leave over every     *)
(* pair of date strings; he and the team-leader act on the requests        *)
AdmissionApplicants == {"lee"}
AdmissionActors == {"lee", "choi"}

SubmitRange ==
    \E u \in AdmissionApplicants, d \in VacationData({"annual"}, IsoStrings) :
        apply_vacation(u, d)
CancelRange == \E id \in Ids, u \in AdmissionActors : cancel_vacation(id, u)
ApproveRange == \E id \in Ids, u \in AdmissionActors : approve_vacation(id, u)
RejectRange == \E id \in Ids, u \in AdmissionActors : reject_vacation(id, u)

NextAdmission == SubmitRange \/ CancelRange \/ ApproveRange \/ RejectRange

SpecAdmission == Init /\ [][NextAdmission]_vars

(* Used days: a part-leader applies for every kind over today and          *)
(* tomorrow, a member for one fixed day; they and the team-leader act      *)
UsedDaysInputs ==
    ({"lee"} \X VacationData(VacationTypes, {Today0, Tomorrow}))
    \cup ({"kim"} \X VacationData({"annual"}, {Today0}))
UsedDaysActors == {"kim", "lee", "choi"}

SubmitCounted == \E i \in UsedDaysInputs : apply_vacation(i[1], i[2])
CancelCounted == \E id \in Ids, u \in UsedDaysActors : cancel_vacation(id, u)
ApproveCounted == \E id \in Ids, u \in UsedDaysActors : approve_vacation(id, u)
RejectCounted == \E id \in Ids, u \in UsedDaysActors : reject_vacation(id, u)

NextUsedDays == SubmitCounted \/ CancelCounted \/ ApproveCounted \/ RejectCounted

SpecUsedDays == Init /\ [][NextUsedDays]_vars

(* Tenure: a member hired yesterday applies, day after day, for leave on   *)
(* two fixed days ahead; the leaders of the department act on the requests *)
TenureApplicants == {"shin"}
TenureActors == {"shin", "lee", "choi"}
TenureDays == {Today0 + MaxTicks, Today0 + MaxTicks + 1}
TenureData ==
    {d \in VacationData({"annual", "sick"}, TenureDays) : d.start_date = d.end_date}

\* date.today() moves on at midnight
AdvanceDay ==
    /\ today < Today0 + MaxTicks
    /\ today' = today + 1
    /\ UNCHANGED <<users, vacations, next_id, result, notified, approval_list, calls>>

SubmitTenure == \E u \in TenureApplicants, d \in TenureData : apply_vacation(u, d)
CancelTenure == \E id \in Ids, u \in TenureActors : cancel_vacation(id, u)
ApproveTenure == \E id \in Ids, u \in TenureActors : approve_vacation(id, u)
RejectTenure == \E id \in Ids, u \in TenureActors : reject_vacation(id, u)

NextTenure ==
    AdvanceDay \/ SubmitTenure \/ CancelTenure \/ ApproveTenure \/ RejectTenure

SpecTenure == Init /\ [][NextTenure]_vars

(* Concurrent approvers: the server works on two requests at a time.  A   *)
(* call reads the row and checks it in one step and writes and commits in  *)
(* a later one; the commit is an UPDATE of the row by primary key.         *)

\* approve_vacation up to the permission check
approve_vacation_read(w, vacation_id, approver_username) ==
    /\ calls[w] = Idle
    /\ IF ~UserExists(approver_username)
       THEN Failed("approve", "approver_not_found", 0)
       ELSE IF vacation_id \notin DOMAIN vacations
       THEN Failed("approve", "error", 0)
       ELSE
       LET approver_user == UserByName(approver_username)
           current_status == vacations[vacation_id].status
           validation_result == _validate_approval_permission(approver_user, current_status)
       IN
       IF ~validation_result.success
       THEN Failed("approve", "no_permission", 0)
       ELSE
           /\ calls' = [calls EXCEPT ![w] =
                  [pc |-> "write", op |-> "approve", vacation_id |-> vacation_id,
                   current_status |-> current_status,
                   new_status |-> validation_result.new_status]]
           /\ UNCHANGED <<users, vacations, next_id, today, result, notified,
                          approval_list>>

\* approve_vacation from the assignment of the status on
approve_vacation_write(w) ==
    /\ calls[w].pc = "write" /\ calls[w].op = "approve"
    /\ vacations' = [vacations EXCEPT
           ![calls[w].vacation_id].status = calls[w].new_status]
    /\ notified' = _send_approval_notification(
                       vacations[calls[w].vacation_id], calls[w].new_status)
    /\ result' = Return("approve", TRUE, "approved", 0)
    /\ calls' = [calls EXCEPT ![w] = Idle]
    /\ UNCHANGED <<users, next_id, today, approval_list>>

\* reject_vacation up to the status check
reject_vacation_read(w, vacation_id, approver_username) ==
    /\ calls[w] = Idle
    /\ IF ~UserExists(approver_username)
       THEN Failed("reject", "approver_not_found", 0)
       ELSE IF vacation_id \notin DOMAIN vacations
       THEN Failed("reject", "error", 0)
       ELSE IF ~_has_approval_permission(UserByName(approver_username).role)
       THEN Failed("reject", "no_permission", 0)
       ELSE IF vacations[vacation_id].status \notin RejectableStatuses
       THEN Failed("reject", "already_processed", 0)
       ELSE
           /\ calls' = [calls EXCEPT ![w] =
                  [pc |-> "write", op |-> "reject", vacation_id |-> vacation_id,
                   current_status |-> vacations[vacation_id].status,
                   new_status |-> REJECTED]]
           /\ UNCHANGED <<users, vacations, next_id, today, result, notified,
                          approval_list>>

\* reject_vacation from the assignment of the status on
reject_vacation_write(w) ==
    /\ calls[w].pc = "write" /\ calls[w].op = "reject"
    /\ vacations' = [vacations EXCEPT ![calls[w].vacation_id].status = REJECTED]
    /\ notified' = {[to |-> u, about |-> "rejected"] :
                       u \in UserIdsByName(vacations[calls[w].vacation_id].applicant)}
    /\ result' = Return("reject", TRUE, "rejected", 0)
    /\ calls' = [calls EXCEPT ![w] = Idle]
    /\ UNCHANGED <<users, next_id, today, approval_list>>

ApproverApplicants == {"kim", "lee"}
ApproverActors == {"lee", "choi", "han"}
ApproverData == VacationData({"annual"}, {Today0})

SubmitForApprovers ==
    \E u \in ApproverApplicants, d \in ApproverData : apply_vacation(u, d)
ApproveRead ==
    \E w \in Workers, id \in Ids, u \in ApproverActors : approve_vacation_read(w, id, u)
ApproveWrite == \E w \in Workers : approve_vacation_write(w)
RejectRead ==
    \E w \in Workers, id \in Ids, u \in ApproverActors : reject_vacation_read(w, id, u)
RejectWrite == \E w \in Workers : reject_vacation_write(w)

NextApprovers ==
    SubmitForApprovers \/ ApproveRead \/ ApproveWrite \/ RejectRead \/ RejectWrite

SpecApprovers == Init /\ [][NextApprovers]_vars

(* Concurrent submissions: a call runs its checks against the rows it      *)
(* reads in one step and inserts and commits in a later one                *)

\* apply_vacation up to _determine_approval_status
apply_vacation_read(w, username, vacation_data) ==
    /\ calls[w] = Idle
    /\ IF ~UserExists(username)
       THEN Failed("apply", "user_not_found", 0)
       ELSE
       LET user_info == UserByName(username) IN
       IF \/ fromisoformat_raises(vacation_data.start_date)
          \/ fromisoformat_raises(vacation_data.end_date)
       THEN Failed("apply", "error", 0)
       ELSE
       LET start_date == fromisoformat(vacation_data.start_date)
           end_date == fromisoformat(vacation_data.end_date)
           leave_check == _check_annual_leave_balance(
                              user_info, vacation_data.vacation_type, start_date, end_date)
       IN
       IF is_past_date(start_date)
       THEN Failed("apply", "past_date", 0)
       ELSE IF is_ineligible(user_info)
       THEN Failed("apply", "ineligible", 0)
       ELSE IF ~_check_vacation_overlap(username, start_date, end_date)
       THEN Failed("apply", "overlap", 0)
       ELSE IF ~leave_check.success
       THEN Failed("apply", "balance_exceeded", leave_check.remaining)
       ELSE
           /\ calls' = [calls EXCEPT ![w] =
                  [pc |-> "write", op |-> "apply", username |-> username,
                   vacation_data |-> vacation_data,
                   status |-> _determine_approval_status(user_info.role)]]
           /\ UNCHANGED <<users, vacations, next_id, today, result, notified,
                          approval_list>>

\* apply_vacation from the creation of the row on
apply_vacation_write(w) ==
    /\ calls[w].pc = "write" /\ calls[w].op = "apply"
    /\ next_id <= MaxId
    /\ vacations' = vacations @@
           (next_id :> [applicant |-> calls[w].username,
                        vacation_type |-> calls[w].vacation_data.vacation_type,
                        start_date |-> calls[w].vacation_data.start_date,
                        end_date |-> calls[w].vacation_data.end_date,
                        reason |-> calls[w].vacation_data.reason,
                        backup |-> calls[w].vacation_data.backup,
                        status |-> calls[w].status])
    /\ next_id' = next_id + 1
    /\ notified' = _send_application_notification(
                       UserByName(calls[w].username), calls[w].status)
    /\ result' = Return("apply", TRUE, "applied", 0)
    /\ calls' = [calls EXCEPT ![w] = Idle]
    /\ UNCHANGED <<users, today, approval_list>>

\* the requests offered: one day or half a day, today or tomorrow
SubmitterApplicants == {"kim", "lee"}
SubmitterData ==
    {d \in VacationData({"annual", "am_half_day"}, {Today0, Tomorrow}) :
        d.start_date = d.end_date}

SubmitRead ==
    \E w \in Workers, u \in SubmitterApplicants, d \in SubmitterData :
        apply_vacation_read(w, u, d)
SubmitWrite == \E w \in Workers : apply_vacation_write(w)
CancelSubmitted ==
    \E id \in Ids, u \in SubmitterApplicants : cancel_vacation(id, u)

NextSubmitters == SubmitRead \/ SubmitWrite \/ CancelSubmitted

SpecSubmitters == Init /\ [][NextSubmitters]_vars

(* Faults: db.session.commit() may raise, and so may the creation of a     *)
(* notification after the commit                                           *)

\* the call gets as far as db.session.commit()
apply_reaches_commit(username, vacation_data) ==
    /\ UserExists(username)
    /\ ~fromisoformat_raises(vacation_data.start_date)
    /\ ~fromisoformat_raises(vacation_data.end_date)
    /\ ~is_past_date(fromisoformat(vacation_data.start_date))
    /\ ~is_ineligible(UserByName(username))
    /\ _check_vacation_overlap(username, fromisoformat(vacation_data.start_date),
                               fromisoformat(vacation_data.end_date))
    /\ _check_annual_leave_balance(UserByName(username), vacation_data.vacation_type,
                                   fromisoformat(vacation_data.start_date),
                                   fromisoformat(vacation_data.end_date)).success

cancel_reaches_commit(vacation_id, username) ==
    /\ vacation_id \in DOMAIN vacations
    /\ vacations[vacation_id].applicant = username
    /\ vacations[vacation_id].status \in CancellableStatuses

approve_reaches_commit(vacation_id, approver_username) ==
    /\ UserExists(approver_username)
    /\ vacation_id \in DOMAIN vacations
    /\ _validate_approval_permission(UserByName(approver_username),
                                     vacations[vacation_id].status).success

reject_reaches_commit(vacation_id, approver_username) ==
    /\ UserExists(approver_username)
    /\ vacation_id \in DOMAIN vacations
    /\ _has_approval_permission(UserByName(approver_username).role)
    /\ vacations[vacation_id].status \in RejectableStatuses

\* commit raises: the except branch rolls back and returns the generic failure
apply_vacation_commit_fails(username, vacation_data) ==
    /\ apply_reaches_commit(username, vacation_data)
    /\ Failed("apply", "error", 0)

cancel_vacation_commit_fails(vacation_id, username) ==
    /\ cancel_reaches_commit(vacation_id, username)
    /\ Failed("cancel", "error", 0)

\* slip: the failure is returned without the rollback
approve_vacation_commit_fails_NoRollback(vacation_id, approver_username) ==
    /\ approve_reaches_commit(vacation_id, approver_username)
    /\ vacations' = [vacations EXCEPT ![vacation_id].status =
           _validate_approval_permission(UserByName(approver_username),
                                         vacations[vacation_id].status).new_status]
    /\ result' = Return("approve", FALSE, "error", 0)
    /\ notified' = {}
    /\ UNCHANGED <<users, next_id, today, approval_list, calls>>

approve_vacation_commit_fails(vacation_id, approver_username) ==
    /\ approve_reaches_commit(vacation_id, approver_username)
    /\ Failed("approve", "error", 0)

reject_vacation_commit_fails(vacation_id, approver_username) ==
    /\ reject_reaches_commit(vacation_id, approver_username)
    /\ Failed("reject", "error", 0)

\* create_notification raises inside _send_application_notification, which
\* swallows it: the notifications created before the failure remain
apply_vacation_notifier_fails(username, vacation_data) ==
    LET status == _determine_approval_status(UserByName(username).role)
        intended == _send_application_notification(UserByName(username), status)
    IN
    /\ apply_reaches_commit(username, vacation_data)
    /\ next_id <= MaxId
    /\ \E created \in SUBSET intended : created # intended /\ notified' = created
    /\ vacations' = vacations @@
           (next_id :> [applicant |-> username,
                        vacation_type |-> vacation_data.vacation_type,
                        start_date |-> vacation_data.start_date,
                        end_date |-> vacation_data.end_date,
                        reason |-> vacation_data.reason,
                        backup |-> vacation_data.backup,
                        status |-> status])
    /\ next_id' = next_id + 1
    /\ result' = Return("apply", TRUE, "applied", 0)
    /\ UNCHANGED <<users, today, approval_list, calls>>

\* create_notification raises inside _send_approval_notification, which
\* swallows it
approve_vacation_notifier_fails(vacation_id, approver_username) ==
    LET new_status == _validate_approval_permission(
                          UserByName(approver_username),
                          vacations[vacation_id].status).new_status
        intended == _send_approval_notification(vacations[vacation_id], new_status)
    IN
    /\ approve_reaches_commit(vacation_id, approver_username)
    /\ \E created \in SUBSET intended : created # intended /\ notified' = created
    /\ vacations' = [vacations EXCEPT ![vacation_id].status = new_status]
    /\ result' = Return("approve", TRUE, "approved", 0)
    /\ UNCHANGED <<users, next_id, today, approval_list, calls>>

\* create_notification raises in reject_vacation itself, after the commit:
\* the except branch of reject_vacation returns the generic failure
reject_vacation_notifier_fails(vacation_id, approver_username) ==
    /\ reject_reaches_commit(vacation_id, approver_username)
    /\ UserExists(vacations[vacation_id].applicant)
    /\ vacations' = [vacations EXCEPT ![vacation_id].status = REJECTED]
    /\ result' = Return("reject", FALSE, "error", 0)
    /\ notified' = {}
    /\ UNCHANGED <<users, next_id, today, approval_list, calls>>

FaultApplicants == {"kim", "lee"}
FaultActors == {"kim", "lee", "choi"}
FaultData == VacationData({"annual"}, {Today0})

SubmitOrFault ==
    \E u \in FaultApplicants, d \in FaultData :
        \/ apply_vacation(u, d)
        \/ apply_vacation_commit_fails(u, d)
        \/ apply_vacation_notifier_fails(u, d)
CancelOrFault ==
    \E id \in Ids, u \in FaultActors :
        \/ cancel_vacation(id, u)
        \/ cancel_vacation_commit_fails(id, u)
ApproveOrFault ==
    \E id \in Ids, u \in FaultActors :
        \/ approve_vacation(id, u)
        \/ approve_vacation_commit_fails(id, u)
        \/ approve_vacation_notifier_fails(id, u)
RejectOrFault ==
    \E id \in Ids, u \in FaultActors :
        \/ reject_vacation(id, u)
        \/ reject_vacation_commit_fails(id, u)
        \/ reject_vacation_notifier_fails(id, u)

NextFaults == SubmitOrFault \/ CancelOrFault \/ ApproveOrFault \/ RejectOrFault

SpecFaults == Init /\ [][NextFaults]_vars

(* Pending lists: members of two departments and a part-leader apply, the *)
(* leaders act, and every employee opens the approvals page                *)
ListApplicants == {"kim", "lee", "jung"}
ListActors == {"lee", "choi"}
ListViewers == {"kim", "lee", "park", "choi", "han", "yoon", "ghost"}
ListData == VacationData({"annual"}, {Today0})

SubmitListed == \E u \in ListApplicants, d \in ListData : apply_vacation(u, d)
CancelListed == \E id \in Ids, u \in ListApplicants : cancel_vacation(id, u)
ApproveListed == \E id \in Ids, u \in ListActors : approve_vacation(id, u)
RejectListed == \E id \in Ids, u \in ListActors : reject_vacation(id, u)
ListPendingApprovals == \E u \in ListViewers : list_pending_approvals(u)

NextApprovals ==
    SubmitListed \/ CancelListed \/ ApproveListed \/ RejectListed
        \/ ListPendingApprovals

SpecApprovals == Init /\ [][NextApprovals]_vars

(* Notifications: a member, a part-leader and a team-leader of one         *)
(* department, a member of a department with two part-leaders and a member *)
(* of a department with none apply for today or for yesterday; a member, a *)
(* part-leader and a team-leader act on the requests                       *)
NoticeApplicants == {"kim", "lee", "choi", "jung", "moon"}
NoticeActors == {"kim", "lee", "choi"}
NoticeData ==
    {d \in VacationData({"annual"}, {Yesterday, Today0}) : d.start_date = d.end_date}

SubmitNoticed == \E u \in NoticeApplicants, d \in NoticeData : apply_vacation(u, d)
CancelNoticed == \E id \in Ids, u \in NoticeApplicants : cancel_vacation(id, u)
ApproveNoticed == \E id \in Ids, u \in NoticeActors : approve_vacation(id, u)
RejectNoticed == \E id \in Ids, u \in NoticeActors : reject_vacation(id, u)

NextNotices == SubmitNoticed \/ CancelNoticed \/ ApproveNoticed \/ RejectNoticed

SpecNotices == Init /\ [][NextNotices]_vars

(* Read faults: a query of the admission checks may raise                  *)

\* the call gets as far as _check_vacation_overlap
apply_reaches_checks(username, vacation_data) ==
    /\ UserExists(username)
    /\ ~fromisoformat_raises(vacation_data.start_date)
    /\ ~fromisoformat_raises(vacation_data.end_date)
    /\ ~is_past_date(fromisoformat(vacation_data.start_date))
    /\ ~is_ineligible(UserByName(username))

\* the query of _check_vacation_overlap raises: its except branch returns a
\* failure, which apply_vacation returns
apply_vacation_overlap_read_fails(username, vacation_data) ==
    /\ apply_reaches_checks(username, vacation_data)
    /\ Failed("apply", "error", 0)

\* the query of _calculate_used_annual_leave raises: its except branch
\* returns 0 and the balance check goes on with it; the insert that follows
\* goes through or, if the store still fails, raises in its turn
apply_vacation_used_read_fails(username, vacation_data) ==
    LET user_info == UserByName(username)
        start_date == fromisoformat(vacation_data.start_date)
        end_date == fromisoformat(vacation_data.end_date)
        total_annual_leave == calculate_annual_leave(user_info.join_date)
        requested == requested_days(vacation_data.vacation_type, start_date, end_date)
        status == _determine_approval_status(user_info.role)
    IN
    /\ apply_reaches_checks(username, vacation_data)
    /\ _check_vacation_overlap(username, start_date, end_date)
    /\ IF balance_exceeded(0, requested, total_annual_leave)
       THEN Failed("apply", "balance_exceeded", total_annual_leave - 0)
       ELSE \/ Failed("apply", "error", 0)
            \/ /\ next_id <= MaxId
               /\ vacations' = vacations @@
                      (next_id :> [applicant |-> username,
                                   vacation_type |-> vacation_data.vacation_type,
                                   start_date |-> vacation_data.start_date,
                                   end_date |-> vacation_data.end_date,
                                   reason |-> vacation_data.reason,
                                   backup |-> vacation_data.backup,
                                   status |-> status])
               /\ next_id' = next_id + 1
               /\ notified' = _send_application_notification(user_info, status)
               /\ result' = Return("apply", TRUE, "applied", 0)
               /\ UNCHANGED <<users, today, approval_list, calls>>

\* a member and a part-leader submit one-day requests, the reads working or
\* failing, and cancel them
NextReadFaults ==
    \/ \E u \in SubmitterApplicants, d \in SubmitterData :
          \/ apply_vacation(u, d)
          \/ apply_vacation_overlap_read_fails(u, d)
          \/ apply_vacation_used_read_fails(u, d)
    \/ \E id \in Ids, u \in SubmitterApplicants : cancel_vacation(id, u)

SpecReadFaults == Init /\ [][NextReadFaults]_vars

----------------------------------------------------------------------------
(* Submit and Cancel side by side: a member and a part-leader submit       *)
(* one-day requests, full days and half-days; the part-leader and the      *)
(* team-leader decide them                                                 *)

NextRoundTrip ==
    \/ \E u \in SubmitterApplicants, d \in SubmitterData : apply_vacation(u, d)
    \/ \E id \in Ids, u \in SubmitterApplicants : cancel_vacation(id, u)
    \/ \E id \in Ids, u \in AdmissionActors : approve_vacation(id, u)
    \/ \E id \in Ids, u \in AdmissionActors : reject_vacation(id, u)

SpecRoundTrip == Init /\ [][NextRoundTrip]_vars

----------------------------------------------------------------------------
(* Role strings: what the administrator may store, and the approval pages *)

\* role.split(',') of the strings the form may carry: one or two entries,
\* each a role, a role after a blank, or a word that is no role
RoleStrings ==
    LET RoleTokens ==
            {TEAM_LEADER, PART_LEADER, MEMBER,
             PADDED_TEAM_LEADER, PADDED_PART_LEADER, PADDED_MEMBER, "intern"}
    IN  {<<a>> : a \in RoleTokens}
            \cup {<<a, b>> : a \in RoleTokens, b \in RoleTokens}

\* UserService._validate_role: every entry, stripped, is one of the roles
_validate_role(role) ==
    LET roles == [i \in DOMAIN role |-> strip(role[i])]
    IN  /\ \A i \in DOMAIN roles : roles[i] \in {TEAM_LEADER, PART_LEADER, MEMBER}
        /\ Len(roles) > 0

\* create_user / update_user store user_data['role'].strip(): the string as
\* typed but for its outer blanks
StoredRoleStrings ==
    {r \in RoleStrings : _validate_role(r) /\ r[1] = strip(r[1])}

\* the test of the approval_required decorator on the stored role
approval_required(user_role) ==
    LET user_roles == [i \in DOMAIN user_role |-> strip(user_role[i])]
    IN  SeqContains(user_roles, TEAM_LEADER) \/ SeqContains(user_roles, PART_LEADER)

\* GET /approvals behind the decorator
approvals(username) ==
    IF ~UserExists(username) THEN Failed("approvals", "login", 0)
    ELSE IF ~approval_required(UserByName(username).role)
    THEN Failed("approvals", "forbidden", 0)
    ELSE list_pending_approvals(username)

\* POST /approvals/approve/<id> behind the decorator
approve_vacation_route(vacation_id, username) ==
    IF ~UserExists(username) THEN Failed("approve", "login", 0)
    ELSE IF ~approval_required(UserByName(username).role)
    THEN Failed("approve", "forbidden", 0)
    ELSE approve_vacation(vacation_id, username)

\* the administrator has given yoon any of the role strings the form accepts
InitRoles ==
    /\ users \in {[InitUsers EXCEPT ![6].role = r] : r \in StoredRoleStrings}
    /\ vacations = <<>>
    /\ next_id = 1
    /\ today = Today0
    /\ result = Return("none", FALSE, "", 0)
    /\ notified = {}
    /\ approval_list = <<>>
    /\ calls = [w \in Workers |-> Idle]

RoleApplicants == {"kim", "yoon"}
RoleActors == {"lee", "yoon"}

NextRoles ==
    \/ \E u \in RoleApplicants, d \in ListData : apply_vacation(u, d)
    \/ \E u \in RoleActors : approvals(u)
    \/ \E id \in Ids, u \in RoleActors : approve_vacation_route(id, u)

SpecRoles == InitRoles /\ [][NextRoles]_vars

----------------------------------------------------------------------------
(* User administration: the administrator creates, edits and deletes users *)
(* while requests are submitted, cancelled and approved                    *)

\* ^[a-zA-Z0-9_]{3,20}$ on the names the administrator types
_validate_username(username) == username \notin {"x"}

\* ^[가-힣a-zA-Z\s]{1,50}$ on the department names the administrator types
_validate_part_name(part) == part \notin {"r&d"}

_validate_user_data(user_data) ==
    /\ _validate_username(user_data.username)
    /\ ~fromisoformat_raises(user_data.join_date)
    /\ _validate_part_name(user_data.part)
    /\ _validate_role(user_data.role)

\* the forms of add_user and edit_user, every field filled in: at most one
\* field is one that the validation refuses
UserData ==
    {f \in [username : {"kim", "ghost", "admin", "x"},
            join_date : {1, MalformedDate},
            part : {"dev", "r&d"}, role : {<<MEMBER>>, <<"intern">>}] :
        \/ f.join_date = 1 /\ f.part = "dev" /\ f.role = <<MEMBER>>
        \/ /\ f.username = "ghost"
           /\ (IF f.join_date = MalformedDate THEN 1 ELSE 0)
                + (IF f.part = "r&d" THEN 1 ELSE 0)
                + (IF f.role = <<"intern">> THEN 1 ELSE 0) = 1}

\* primary keys of User the administrator may pass: kim, lee, the first
\* created user and a key never given out
UserIds == {1, 2, 10, 12}

create_user(user_data) ==
    IF ~_validate_user_data(user_data)
    THEN Failed("create_user", "invalid", 0)
    ELSE IF UserExists(user_data.username)
    THEN Failed("create_user", "duplicate", 0)
    ELSE
    LET new_id == IF DOMAIN users = {} THEN 1
                  ELSE 1 + CHOOSE m \in DOMAIN users : \A x \in DOMAIN users : x <= m
    IN  /\ users' = users @@ (new_id :> [username |-> user_data.username,
                                         join_date |-> user_data.join_date,
                                         part |-> user_data.part,
                                         role |-> user_data.role])
        /\ result' = Return("create_user", TRUE, "created", 0)
        /\ notified' = {}
        /\ UNCHANGED <<vacations, next_id, today, approval_list, calls>>

update_user(user_id, user_data) ==
    IF ~_validate_user_data(user_data)
    THEN Failed("update_user", "invalid", 0)
    ELSE IF user_id \notin DOMAIN users
    THEN Failed("update_user", "not_found", 0)
    ELSE IF UserIdsByName(user_data.username) \ {user_id} # {}
    THEN Failed("update_user", "duplicate", 0)
    ELSE
        /\ users' = [users EXCEPT ![user_id] =
                        [username |-> user_data.username,
                         join_date |-> user_data.join_date,
                         part |-> user_data.part,
                         role |-> user_data.role]]
        /\ result' = Return("update_user", TRUE, "updated", 0)
        /\ notified' = {}
        /\ UNCHANGED <<vacations, next_id, today, approval_list, calls>>

\* the User row is deleted and the Vacation table is not touched; where the
\* store refuses the delete, commit raises and the except branch returns
\* the failure
delete_user(user_id) ==
    IF user_id \notin DOMAIN users
    THEN Failed("delete_user", "not_found", 0)
    ELSE IF users[user_id].username = "admin"
    THEN Failed("delete_user", "admin", 0)
    ELSE
        \/ Failed("delete_user", "error", 0)
        \/ /\ users' = [x \in DOMAIN users \ {user_id} |-> users[x]]
           /\ result' = Return("delete_user", TRUE, "deleted", 0)
           /\ notified' = {}
           /\ UNCHANGED <<vacations, next_id, today, approval_list, calls>>

NextDirectory ==
    \/ \E user_data \in UserData : create_user(user_data)
    \/ \E user_id \in UserIds, user_data \in UserData : update_user(user_id, user_data)
    \/ \E user_id \in UserIds : delete_user(user_id)
    \/ \E u \in {"kim", "ghost"}, d \in ListData : apply_vacation(u, d)
    \/ \E id \in Ids, u \in {"kim", "ghost"} : cancel_vacation(id, u)
    \/ \E id \in Ids, u \in AdmissionActors : approve_vacation(id, u)

SpecDirectory == Init /\ [][NextDirectory]_vars

----------------------------------------------------------------------------
(* Vocabulary of the properties *)

Pending == {PENDING_PART_LEADER, PENDING_TEAM_LEADER}
Terminal == {APPROVED, REJECTED}

\* the employee holds role r: r is one of the comma-separated entries of
\* the employee's role string
HoldsRole(user_role, r) == r \in {user_role[i] : i \in DOMAIN user_role}

Active == {PENDING_PART_LEADER, PENDING_TEAM_LEADER, APPROVED}

\* [a,b] and [c,d] overlap
RangesMeet(a, b, c, d) == ~(b < c \/ a > d)

\* half-days one request draws from the annual pool
Contribution(row) ==
    CASE row.vacation_type = "annual" ->
             2 * (fromisoformat(row.end_date) - fromisoformat(row.start_date) + 1)
      [] row.vacation_type \in {"am_half_day", "pm_half_day"} -> 1
      [] OTHER -> 0

\* half-days drawn by the active requests of one applicant, id by id
RECURSIVE DrawnUpTo(_, _, _)
DrawnUpTo(table, name, n) ==
    IF n = 0 THEN 0
    ELSE DrawnUpTo(table, name, n - 1)
         + (IF /\ n \in DOMAIN table
               /\ table[n].applicant = name
               /\ table[n].status \in Active
            THEN Contribution(table[n]) ELSE 0)

Drawn(table, name) == DrawnUpTo(table, name, MaxId)

----------------------------------------------------------------------------
(* C1: every Approve of a stored request by an existing employee follows   *)
(* the transition table: team-leader on pending_team_leader -> approved;   *)
(* otherwise part-leader on pending_part_leader -> pending_team_leader;    *)
(* every other pair is denied and the Vacation table is unchanged.         *)
ApproveTable(id, u) ==
    LET role == UserByName(u).role
        st == vacations[id].status
    IN  IF HoldsRole(role, TEAM_LEADER) /\ st = PENDING_TEAM_LEADER
        THEN /\ result'.success
             /\ vacations' = [vacations EXCEPT ![id].status = APPROVED]
        ELSE IF HoldsRole(role, PART_LEADER) /\ st = PENDING_PART_LEADER
        THEN /\ result'.success
             /\ vacations' = [vacations EXCEPT ![id].status = PENDING_TEAM_LEADER]
        ELSE /\ ~result'.success
             /\ vacations' = vacations

C1_ApproveFollowsTable ==
    [][result'.op = "approve" =>
          \A id \in DOMAIN vacations, u \in Usernames :
              (UserExists(u) /\ approve_vacation(id, u)) => ApproveTable(id, u)]_vars

C1_Witness ==
    /\ result.op = "approve" /\ ~result.success /\ result.message = "no_permission"
    /\ \E v \in DOMAIN vacations :
          /\ vacations[v].status = PENDING_TEAM_LEADER
          /\ ~HoldsRole(UserByName(vacations[v].applicant).role, PART_LEADER)

----------------------------------------------------------------------------
(* C2: approved and rejected are absorbing: a request in one of them keeps *)
(* its status and stays in the table in every step, and every Approve,     *)
(* Reject or Cancel addressed to it, by any caller, returns a failure (no  *)
(* successful step is a call addressed to a request in such a status).     *)
C2_TerminalAbsorbing ==
    [][/\ \A id \in DOMAIN vacations :
              vacations[id].status \in Terminal =>
                  /\ id \in DOMAIN vacations'
                  /\ vacations'[id].status = vacations[id].status
       /\ (result'.op \in {"approve", "reject", "cancel"} /\ result'.success) =>
              \A id \in DOMAIN vacations, u \in Usernames :
                  vacations[id].status \in Terminal =>
                      /\ ~approve_vacation(id, u)
                      /\ ~reject_vacation(id, u)
                      /\ ~cancel_vacation(id, u)]_vars

C2_Witness ==
    /\ result.op = "cancel" /\ ~result.success /\ result.message = "already_decided"
    /\ \E v \in DOMAIN vacations : vacations[v].status = APPROVED
    /\ \E v \in DOMAIN vacations : vacations[v].status = REJECTED

----------------------------------------------------------------------------
(* C5: a successful Submit adds exactly one row; a row is created in       *)
(* pending_team_leader when its applicant holds part-leader and in         *)
(* pending_part_leader when not, never in approved or rejected; and the    *)
(* routing function gives the same answer for every role string of the     *)
(* directory.                                                              *)
RoutedStatus(user_role) ==
    IF HoldsRole(user_role, PART_LEADER) THEN PENDING_TEAM_LEADER
    ELSE PENDING_PART_LEADER

C5_InitialStatusByRole ==
    [][/\ (result'.op = "apply" /\ result'.success) =>
              DOMAIN vacations' = DOMAIN vacations \cup {next_id}
       /\ \A id \in DOMAIN vacations' \ DOMAIN vacations :
              /\ UserExists(vacations'[id].applicant)
              /\ vacations'[id].status =
                     RoutedStatus(UserByName(vacations'[id].applicant).role)
       /\ \A x \in DOMAIN users :
              _determine_approval_status(users[x].role) = RoutedStatus(users[x].role)]_vars

C5_Witness ==
    /\ result.op = "apply" /\ result.success
    /\ \E v \in DOMAIN vacations :
          /\ HoldsRole(UserByName(vacations[v].applicant).role, PART_LEADER)
          /\ vacations[v].status = PENDING_TEAM_LEADER
    /\ \E v \in DOMAIN vacations :
          /\ ~HoldsRole(UserByName(vacations[v].applicant).role, PART_LEADER)
          /\ vacations[v].status = PENDING_PART_LEADER

----------------------------------------------------------------------------
(* C6: tiers are passed in order.  A row is created pending, and in        *)
(* pending_team_leader only for a part-leader applicant; a status becomes  *)
(* approved only from pending_team_leader, by a successful Approve that    *)
(* only team-leader holders can have made; it becomes pending_team_leader  *)
(* only from pending_part_leader, by a successful Approve that only        *)
(* part-leader holders can have made; it never becomes pending_part_leader.*)
ByApproveOf(id, r) ==
    /\ result'.op = "approve" /\ result'.success
    /\ \E u \in Usernames : approve_vacation(id, u)
    /\ \A u \in Usernames :
          approve_vacation(id, u) =>
              UserExists(u) /\ HoldsRole(UserByName(u).role, r)

C6_TierOrder ==
    [][\A id \in DOMAIN vacations' :
          /\ id \notin DOMAIN vacations =>
                /\ vacations'[id].status \in Pending
                /\ vacations'[id].status = PENDING_TEAM_LEADER =>
                       HoldsRole(UserByName(vacations'[id].applicant).role, PART_LEADER)
          /\ (id \in DOMAIN vacations /\ vacations'[id].status # vacations[id].status) =>
                /\ vacations'[id].status # PENDING_PART_LEADER
                /\ vacations'[id].status = PENDING_TEAM_LEADER =>
                       /\ vacations[id].status = PENDING_PART_LEADER
                       /\ ByApproveOf(id, PART_LEADER)
                /\ vacations'[id].status = APPROVED =>
                       /\ vacations[id].status = PENDING_TEAM_LEADER
                       /\ ByApproveOf(id, TEAM_LEADER)]_vars

C6_Witness ==
    /\ result.op = "approve" /\ result.success
    /\ \E v \in DOMAIN vacations :
          /\ vacations[v].status = APPROVED
          /\ ~HoldsRole(UserByName(vacations[v].applicant).role, PART_LEADER)

----------------------------------------------------------------------------
(* C7: Cancel deletes the row iff the caller is the row's applicant and    *)
(* the status is pending_part_leader or pending_team_leader; every other   *)
(* Cancel (another caller, a decided request, an unknown id) returns a     *)
(* failure and leaves the Vacation table as it was.                        *)
C7_CancelRule ==
    [][result'.op = "cancel" =>
          \A id \in Ids, u \in Usernames :
              cancel_vacation(id, u) =>
                  IF /\ id \in DOMAIN vacations
                     /\ vacations[id].applicant = u
                     /\ vacations[id].status \in Pending
                  THEN /\ result'.success
                       /\ DOMAIN vacations' = DOMAIN vacations \ {id}
                       /\ \A v \in DOMAIN vacations' : vacations'[v] = vacations[v]
                  ELSE /\ ~result'.success
                       /\ vacations' = vacations]_vars

C7_Witness ==
    /\ result.op = "cancel" /\ result.success
    /\ \E id \in 1..(next_id - 1) : id \notin DOMAIN vacations
    /\ \E v \in DOMAIN vacations : vacations[v].status \in Pending

----------------------------------------------------------------------------
(* C8: a Reject of a stored request by an existing employee sets the       *)
(* status to rejected iff the employee holds part-leader or team-leader    *)
(* and the status is pending (either tier, whichever role); otherwise it   *)
(* fails without mutation, with "no permission" when the employee holds    *)
(* neither role and "already processed" when the status is not pending.    *)
C8_RejectRule ==
    [][result'.op = "reject" =>
          \A id \in DOMAIN vacations, u \in Usernames :
              (UserExists(u) /\ reject_vacation(id, u)) =>
                  LET role == UserByName(u).role
                      holds == HoldsRole(role, PART_LEADER) \/ HoldsRole(role, TEAM_LEADER)
                  IN  IF holds /\ vacations[id].status \in Pending
                      THEN /\ result'.success
                           /\ vacations' = [vacations EXCEPT ![id].status = REJECTED]
                      ELSE /\ ~result'.success
                           /\ vacations' = vacations
                           /\ result'.message =
                                  IF holds THEN "already_processed" ELSE "no_permission"]_vars

C8_Witness ==
    /\ result.op = "reject" /\ ~result.success /\ result.message = "already_processed"
    /\ \E v \in DOMAIN vacations : vacations[v].status = REJECTED

----------------------------------------------------------------------------
(* C10: a Submit whose start date is a date before today returns a failure *)
(* and creates no row, whoever applies and whatever the kind and the end   *)
(* date (no step that succeeds or changes the table is such a Submit); a   *)
(* Submit whose start date is today is not turned down as past.            *)
PastStart(d) ==
    ~fromisoformat_raises(d.start_date) /\ fromisoformat(d.start_date) < today
TodayStart(d) ==
    ~fromisoformat_raises(d.start_date) /\ fromisoformat(d.start_date) = today

C10_PastStartFails ==
    [][result'.op = "apply" =>
          /\ (result'.success \/ vacations' # vacations \/ next_id' # next_id) =>
                 \A u \in Applicants, d \in WorkflowData :
                     PastStart(d) => ~apply_vacation(u, d)
          /\ result'.message = "past_date" =>
                 \A u \in Applicants, d \in WorkflowData :
                     TodayStart(d) => ~apply_vacation(u, d)]_vars

C10_Witness ==
    /\ result.op = "apply" /\ ~result.success /\ result.message = "past_date"
    /\ \E v \in DOMAIN vacations : fromisoformat(vacations[v].start_date) = today

----------------------------------------------------------------------------
(* C3: no applicant has two distinct active requests (pending at either    *)
(* tier, or approved) whose date ranges overlap, [a,b] and [c,d]           *)
(* overlapping iff not (b < c or a > d); and the test Submit applies is    *)
(* that relation and is symmetric in its two ranges (the test is a pure    *)
(* function: it is compared on all ranges once, in the initial state).     *)
C3_NoOverlappingActive ==
    /\ \A v, w \in DOMAIN vacations :
          (/\ v # w
           /\ vacations[v].applicant = vacations[w].applicant
           /\ vacations[v].status \in Active
           /\ vacations[w].status \in Active)
              => ~RangesMeet(fromisoformat(vacations[v].start_date),
                             fromisoformat(vacations[v].end_date),
                             fromisoformat(vacations[w].start_date),
                             fromisoformat(vacations[w].end_date))
    /\ next_id = 1 =>
          \A a, b, c, d \in Days :
              /\ ranges_overlap(a, b, c, d) = RangesMeet(a, b, c, d)
              /\ ranges_overlap(a, b, c, d) = ranges_overlap(c, d, a, b)

C3_Witness ==
    /\ result.op = "apply" /\ ~result.success /\ result.message = "overlap"
    /\ \E v, w \in DOMAIN vacations :
          /\ v # w
          /\ vacations[v].applicant = vacations[w].applicant
          /\ vacations[v].status \in Active
          /\ vacations[w].status \in Active
          /\ vacations[v].start_date <= vacations[v].end_date
          /\ vacations[w].start_date <= vacations[w].end_date

----------------------------------------------------------------------------
(* C4: in every reachable state the half-days drawn by an employee's       *)
(* active requests do not exceed the employee's total entitlement (the     *)
(* entitlement of an employee never decreases in this model).              *)
C4_UsedWithinTotal ==
    \A x \in DOMAIN users :
        Drawn(vacations, users[x].username) <= calculate_annual_leave(users[x].join_date)

----------------------------------------------------------------------------
(* C9: the used days the service computes for an applicant are the sum,    *)
(* over that applicant's active requests only, of the inclusive day count  *)
(* for annual, one half-day for a half-day kind whatever its span, and     *)
(* nothing for another kind; so a Reject or a Cancel of an active request  *)
(* lowers them by exactly that request's share, and an Approve leaves      *)
(* them as they were.                                                      *)
C9_UsedDaysLedger ==
    /\ [](\A x \in DOMAIN users :
             _calculate_used_annual_leave(users[x].username)
                 = Drawn(vacations, users[x].username))
    /\ [][result'.op \in {"cancel", "reject", "approve"} =>
            \A x \in DOMAIN users :
              LET name == users[x].username
                  used == _calculate_used_annual_leave(name)
                  used_after == _calculate_used_annual_leave(name)'
              IN  /\ \A id \in DOMAIN vacations :
                        (vacations[id].applicant = name /\ vacations[id].status \in Active) =>
                            /\ (result'.op = "cancel" /\ id \notin DOMAIN vacations') =>
                                   used_after = used - Contribution(vacations[id])
                            /\ (/\ result'.op = "reject"
                                /\ id \in DOMAIN vacations'
                                /\ vacations'[id].status = REJECTED) =>
                                   used_after = used - Contribution(vacations[id])
                  /\ result'.op = "approve" => used_after = used]_vars

C9_Witness ==
    /\ result.op = "reject" /\ result.success
    /\ \E v \in DOMAIN vacations : vacations[v].status = REJECTED
    /\ \E v \in DOMAIN vacations :
          /\ vacations[v].status \in Active
          /\ vacations[v].vacation_type = "am_half_day"
          /\ vacations[v].start_date < vacations[v].end_date

----------------------------------------------------------------------------
\* the checks of Submit other than tenure pass for (name, d)
OtherChecksPass(name, d) ==
    /\ ~fromisoformat_raises(d.start_date) /\ ~fromisoformat_raises(d.end_date)
    /\ fromisoformat(d.start_date) >= today
    /\ \A v \in DOMAIN vacations :
          (vacations[v].applicant = name /\ vacations[v].status \in Active) =>
              ~RangesMeet(fromisoformat(d.start_date), fromisoformat(d.end_date),
                          fromisoformat(vacations[v].start_date),
                          fromisoformat(vacations[v].end_date))
    /\ Drawn(vacations, name) + Contribution(d)
           <= calculate_annual_leave(UserByName(name).join_date)

(* C11: while the tenure predicate is false for an applicant, no Submit    *)
(* creates an annual-leave request for that applicant, whatever the        *)
(* balance and even with an empty table; once it is true, the same Submit  *)
(* by a member (not a part-leader) whose other checks pass succeeds and    *)
(* the new request is pending_part_leader.                                 *)
C11_TenureGate ==
    [][\A u \in TenureApplicants, d \in TenureData :
          apply_vacation(u, d) =>
              LET user == UserByName(u)
                  eligible == can_use_annual_leave(user.join_date)
              IN  /\ (d.vacation_type = "annual" /\ ~eligible) =>
                         (vacations' = vacations /\ ~result'.success)
                  /\ (/\ eligible
                      /\ HoldsRole(user.role, MEMBER)
                      /\ ~HoldsRole(user.role, PART_LEADER)
                      /\ OtherChecksPass(u, d)) =>
                         /\ result'.success
                         /\ DOMAIN vacations' = DOMAIN vacations \cup {next_id}
                         /\ vacations'[next_id].applicant = u
                         /\ vacations'[next_id].vacation_type = d.vacation_type
                         /\ vacations'[next_id].status = PENDING_PART_LEADER]_vars

\* the member hired yesterday was refused at first and, tenure reached, now
\* holds an annual request waiting for the part-leader
C11_Witness ==
    /\ today = Today0 + 2
    /\ result.op = "apply" /\ result.success
    /\ \E v \in DOMAIN vacations :
          /\ vacations[v].applicant = "shin"
          /\ vacations[v].vacation_type = "annual"
          /\ vacations[v].status = PENDING_PART_LEADER

----------------------------------------------------------------------------
(* C12: a Submit denied for balance had used + requested > total and       *)
(* reports total - used, where used is drawn from the active requests      *)
(* before the new one and excludes the requested days; a Submit with       *)
(* used + requested <= total is not denied for balance.  With total 15     *)
(* days (30 half-days) and 14.5 used (29), one annual day (2) is denied    *)
(* with 0.5 (1) left and a half day (1) is admitted.                       *)
C12_RemainingReported ==
    /\ [](/\ balance_exceeded(29, 2, 30)
          /\ 30 - 29 = 1
          /\ ~balance_exceeded(29, 1, 30))
    /\ [][(result'.op = "apply"
             /\ (result'.success \/ result'.message = "balance_exceeded")) =>
            \A i \in UsedDaysInputs :
              apply_vacation(i[1], i[2]) =>
                LET used == Drawn(vacations, i[1])
                    total == calculate_annual_leave(UserByName(i[1]).join_date)
                    requested == Contribution(i[2])
                IN  /\ result'.message = "balance_exceeded" =>
                          /\ used + requested > total
                          /\ result'.remaining = total - used
                          /\ ~result'.success
                          /\ vacations' = vacations
                    /\ used + requested <= total =>
                          result'.message # "balance_exceeded"
                    /\ result'.success => used + requested <= total]_vars

\* half a day is left and a whole day was asked for
C12_Witness ==
    /\ result.op = "apply" /\ result.message = "balance_exceeded"
    /\ result.remaining = 1
    /\ \E v \in DOMAIN vacations :
          /\ vacations[v].applicant = "lee"
          /\ vacations[v].status \in Active
          /\ Drawn(vacations, "lee") = calculate_annual_leave(UserByName("lee").join_date) - 1

----------------------------------------------------------------------------
(* C13: when two approval-side calls on the same pending request           *)
(* interleave, a call writes only if the request still has the status the  *)
(* call checked, so at most one of the two transitions it, and no step     *)
(* changes the status of a request that is approved or rejected.           *)
C13_OneDecision ==
    [][/\ \A w \in Workers :
            (calls[w].pc = "write" /\ calls'[w] = Idle) =>
                vacations[calls[w].vacation_id].status = calls[w].current_status
       /\ \A id \in DOMAIN vacations :
            vacations[id].status \in Terminal =>
                vacations'[id].status = vacations[id].status]_vars

----------------------------------------------------------------------------
(* C14: when two Submits of one applicant interleave, they never both pass *)
(* the checks and leave the applicant with two overlapping active requests *)
(* or with more days drawn than the total entitlement (all requests here   *)
(* have end = start).                                                      *)
C14_SnapshotAdmission ==
    \A name \in SubmitterApplicants :
        /\ Drawn(vacations, name) <= calculate_annual_leave(UserByName(name).join_date)
        /\ \A v, w \in DOMAIN vacations :
              (/\ v < w
               /\ vacations[v].applicant = name /\ vacations[w].applicant = name
               /\ vacations[v].status \in Active /\ vacations[w].status \in Active)
                  => ~RangesMeet(fromisoformat(vacations[v].start_date),
                                 fromisoformat(vacations[v].end_date),
                                 fromisoformat(vacations[w].start_date),
                                 fromisoformat(vacations[w].end_date))

----------------------------------------------------------------------------
(* C15: a Submit, Approve or Reject whose store write was committed        *)
(* returns success and keeps the change, also when the Notifier fails      *)
(* after the commit: no such step changes the table and reports failure.   *)
C15_NotifierDecoupled ==
    [][/\ \A u \in FaultApplicants, d \in FaultData :
            apply_vacation_notifier_fails(u, d) =>
                (result'.success /\ next_id \in DOMAIN vacations')
       /\ \A id \in Ids, u \in FaultActors :
            /\ approve_vacation_notifier_fails(id, u) =>
                  (result'.success /\ vacations'[id].status # vacations[id].status)
            /\ reject_vacation_notifier_fails(id, u) =>
                  (result'.success /\ vacations'[id].status = REJECTED)]_vars

----------------------------------------------------------------------------
(* C16: every Submit, Cancel, Approve or Reject that returns               *)
(* success = false has created, changed and deleted nothing.               *)
C16_FailureLeavesStore ==
    [][~result'.success => vacations' = vacations]_vars

----------------------------------------------------------------------------
(* C17: when the commit of Submit, Cancel, Approve or Reject fails, the    *)
(* table is as before, the caller gets a failure and no notification is    *)
(* created, and the same call again gets as far as the commit; a step that *)
(* creates a notification is a successful one that changed the table.      *)
C17_CommitFailureRollsBack ==
    [][/\ \A u \in FaultApplicants, d \in FaultData :
            apply_vacation_commit_fails(u, d) =>
                /\ vacations' = vacations /\ ~result'.success /\ notified' = {}
                /\ apply_reaches_commit(u, d)'
       /\ \A id \in Ids, u \in FaultActors :
            /\ cancel_vacation_commit_fails(id, u) =>
                  /\ vacations' = vacations /\ ~result'.success /\ notified' = {}
                  /\ cancel_reaches_commit(id, u)'
            /\ approve_vacation_commit_fails(id, u) =>
                  /\ vacations' = vacations /\ ~result'.success /\ notified' = {}
                  /\ approve_reaches_commit(id, u)'
            /\ reject_vacation_commit_fails(id, u) =>
                  /\ vacations' = vacations /\ ~result'.success /\ notified' = {}
                  /\ reject_reaches_commit(id, u)'
       /\ notified' # {} => (result'.success /\ vacations' # vacations)]_vars

\* the first Submit ever failed at its commit: nothing is stored
C17_Witness ==
    /\ result.op = "apply" /\ ~result.success /\ result.message = "error"
    /\ vacations = <<>> /\ next_id = 1 /\ notified = {}

----------------------------------------------------------------------------
\* the requests the list of an approver is to hold
ToBeListed(name) ==
    IF ~UserExists(name) THEN {}
    ELSE {v \in DOMAIN vacations :
            \/ /\ HoldsRole(UserByName(name).role, PART_LEADER)
               /\ vacations[v].status = PENDING_PART_LEADER
               /\ UserExists(vacations[v].applicant)
               /\ UserByName(vacations[v].applicant).part = UserByName(name).part
            \/ /\ HoldsRole(UserByName(name).role, TEAM_LEADER)
               /\ vacations[v].status = PENDING_TEAM_LEADER}

(* C18: the list returned to an approver holds exactly, each once: the     *)
(* pending_part_leader requests of the approver's own department if the    *)
(* approver holds part-leader, and every pending_team_leader request if    *)
(* the approver holds team-leader (both for a holder of both, none for a   *)
(* holder of neither and for an unknown name); never an approved or        *)
(* rejected request; and asking for the list changes neither table.        *)
C18_PendingList ==
    /\ [](\A name \in ListViewers :
             LET listed == get_pending_approvals(name)
             IN  /\ {listed[i] : i \in DOMAIN listed} = ToBeListed(name)
                 /\ Len(listed) = Cardinality(ToBeListed(name))
                 /\ \A i \in DOMAIN listed :
                       vacations[listed[i]].status \notin Terminal)
    /\ [][\A name \in ListViewers :
             list_pending_approvals(name) =>
                 /\ {approval_list'[i] : i \in DOMAIN approval_list'} = ToBeListed(name)
                 /\ UNCHANGED <<users, vacations, next_id, result, notified>>]_vars

\* a holder of both roles was shown the first-tier request of the own
\* department and the second-tier request of another department
C18_Witness ==
    /\ Len(approval_list) = 2
    /\ approval_list = get_pending_approvals("han")
    /\ vacations[approval_list[1]].status = PENDING_PART_LEADER
    /\ vacations[approval_list[1]].applicant = "jung"
    /\ vacations[approval_list[2]].status = PENDING_TEAM_LEADER
    /\ UserByName(vacations[approval_list[2]].applicant).part # UserByName("han").part

----------------------------------------------------------------------------
\* the set of roles of an employee: the entries of the role string, blanks
\* around an entry dropped
RoleSet(user_role) == {strip(user_role[i]) : i \in DOMAIN user_role}

TeamLeaders == {x \in DOMAIN users : TEAM_LEADER \in RoleSet(users[x].role)}
PartLeadersOf(part) ==
    {x \in DOMAIN users :
        users[x].part = part /\ PART_LEADER \in RoleSet(users[x].role)}

\* the employees the notifications of a step go to
Recipients(notes) == {n.to : n \in notes}

(* C19: a successful Submit whose request starts pending_team_leader       *)
(* creates one notification for every team-leader and for nobody else;     *)
(* one whose request starts pending_part_leader creates at most one, and   *)
(* only for a part-leader of the applicant's department, and none when     *)
(* that department has no part-leader, the request being created all the   *)
(* same; a failed Submit creates none.                                     *)
C19_SubmitNotices ==
    [][result'.op = "apply" =>
         \A u \in NoticeApplicants, d \in NoticeData :
           apply_vacation(u, d) =>
             IF result'.success
             THEN /\ next_id \in DOMAIN vacations'
                  /\ Cardinality(notified') = Cardinality(Recipients(notified'))
                  /\ vacations'[next_id].status = PENDING_TEAM_LEADER =>
                        Recipients(notified') = TeamLeaders
                  /\ vacations'[next_id].status = PENDING_PART_LEADER =>
                        /\ Cardinality(notified') <= 1
                        /\ Recipients(notified') \subseteq PartLeadersOf(UserByName(u).part)
                        /\ PartLeadersOf(UserByName(u).part) = {} => notified' = {}
             ELSE notified' = {} /\ vacations' = vacations]_vars

\* a member of a department without part-leader has just applied: the
\* request is stored and nobody was notified
C19_Witness ==
    /\ result.op = "apply" /\ result.success /\ notified = {}
    /\ next_id - 1 \in DOMAIN vacations
    /\ vacations[next_id - 1].applicant = "moon"
    /\ vacations[next_id - 1].status = PENDING_PART_LEADER

----------------------------------------------------------------------------
\* the notifications of approve and reject steps, but for the clause on
\* the applicant of a request that moves to the team-leader tier
ApprovalNotices(id, u) ==
    /\ approve_vacation(id, u) =>
          IF result'.success
          THEN /\ Cardinality(notified') = Cardinality(Recipients(notified'))
               /\ vacations'[id].status = PENDING_TEAM_LEADER =>
                     Recipients(notified') = TeamLeaders
               /\ vacations'[id].status = APPROVED =>
                     Recipients(notified') = UserIdsByName(vacations[id].applicant)
          ELSE notified' = {}
    /\ reject_vacation(id, u) =>
          IF result'.success
          THEN /\ Cardinality(notified') = 1
               /\ Recipients(notified') = UserIdsByName(vacations[id].applicant)
          ELSE notified' = {}

(* C20 as stated: a successful Approve that yields pending_team_leader     *)
(* notifies all team-leaders and not the applicant; one that yields        *)
(* approved notifies only the applicant; a successful Reject notifies only *)
(* the applicant; a denied Approve or Reject notifies nobody.              *)
C20_ApprovalNotices_AsStated ==
    [][result'.op \in {"approve", "reject"} =>
         \A id \in Ids, u \in NoticeActors :
            /\ ApprovalNotices(id, u)
            /\ (/\ approve_vacation(id, u) /\ result'.success
                /\ vacations'[id].status = PENDING_TEAM_LEADER) =>
                   Recipients(notified') \cap UserIdsByName(vacations[id].applicant) = {}]_vars

(* C20: a successful Approve that yields pending_team_leader notifies      *)
(* exactly the team-leaders, hence the applicant if and only if the        *)
(* applicant is a team-leader; one that yields approved notifies only the  *)
(* applicant; a successful Reject notifies only the applicant; a denied    *)
(* Approve or Reject notifies nobody.                                      *)
C20_ApprovalNotices ==
    [][result'.op \in {"approve", "reject"} =>
         \A id \in Ids, u \in NoticeActors :
            /\ ApprovalNotices(id, u)
            /\ (/\ approve_vacation(id, u) /\ result'.success
                /\ vacations'[id].status = PENDING_TEAM_LEADER) =>
                   (Recipients(notified') \cap UserIdsByName(vacations[id].applicant) # {}
                      <=> UserIdsByName(vacations[id].applicant) \subseteq TeamLeaders)]_vars

\* the part-leader has approved the request of a team-leader, who is among
\* the team-leaders told of it
C20_Witness ==
    /\ result.op = "approve" /\ result.success
    /\ \E v \in DOMAIN vacations :
          /\ vacations[v].status = PENDING_TEAM_LEADER
          /\ vacations[v].applicant = "choi"
          /\ UserIdsByName("choi") \subseteq Recipients(notified)
          /\ Recipients(notified) = TeamLeaders

----------------------------------------------------------------------------
(* C21: every stored request has end date >= start date and one of the     *)
(* four statuses, so that no request draws a negative number of days.      *)
C21_WellFormedRequests ==
    \A v \in DOMAIN vacations :
        /\ fromisoformat(vacations[v].end_date) >= fromisoformat(vacations[v].start_date)
        /\ vacations[v].status \in
               {PENDING_PART_LEADER, PENDING_TEAM_LEADER, APPROVED, REJECTED}
        /\ Contribution(vacations[v]) >= 0

----------------------------------------------------------------------------
\* the fields of a request other than its status
Particulars(row) ==
    <<row.applicant, row.vacation_type, row.start_date, row.end_date,
      row.reason, row.backup>>

(* C22: a request appears only through a successful Submit and disappears  *)
(* only through a Cancel, and then it was pending; Approve and Reject      *)
(* change nothing but the status of the request they are addressed to;     *)
(* applicant, kind, dates, reason and backup of a stored request never     *)
(* change; an operation addressed to one request leaves every other        *)
(* request as it was.                                                      *)
C22_LifecycleFrame ==
    [][vacations' # vacations =>
         /\ \A v \in DOMAIN vacations' \ DOMAIN vacations :
               /\ result'.op = "apply" /\ result'.success
               /\ v = next_id
               /\ DOMAIN vacations' = DOMAIN vacations \cup {v}
         /\ \A v \in DOMAIN vacations \ DOMAIN vacations' :
               /\ result'.op = "cancel" /\ result'.success
               /\ vacations[v].status \in Pending
               /\ DOMAIN vacations' = DOMAIN vacations \ {v}
         /\ \A v \in DOMAIN vacations \cap DOMAIN vacations' :
               /\ Particulars(vacations'[v]) = Particulars(vacations[v])
               /\ vacations'[v].status # vacations[v].status =>
                     result'.op \in {"approve", "reject"}
               /\ result'.op \in {"apply", "cancel"} => vacations'[v] = vacations[v]
         /\ \A id \in Ids, u \in NoticeActors :
               (approve_vacation(id, u) \/ reject_vacation(id, u)) =>
                   /\ DOMAIN vacations' = DOMAIN vacations
                   /\ \A v \in DOMAIN vacations \ {id} : vacations'[v] = vacations[v]
         /\ \A id \in Ids, u \in NoticeApplicants :
               cancel_vacation(id, u) =>
                   \A v \in DOMAIN vacations \ {id} :
                       v \in DOMAIN vacations' /\ vacations'[v] = vacations[v]]_vars

\* one of two stored requests has just been approved
C22_Witness ==
    /\ result.op = "approve" /\ result.success
    /\ Cardinality(DOMAIN vacations) = 2
    /\ \E v, w \in DOMAIN vacations :
          vacations[v].status = APPROVED /\ vacations[w].status \in Pending

----------------------------------------------------------------------------
(* C23: a Submit is denied for overlap only when an active request of the  *)
(* applicant meets its range, and it succeeds whenever its checks pass     *)
(* against the active requests alone: a rejected request (and a cancelled  *)
(* one, which is no longer stored) neither blocks the range nor holds its  *)
(* days.                                                                   *)
C23_DecidedRequestsRelease ==
    [][result'.op = "apply" =>
         \A u \in NoticeApplicants, d \in NoticeData :
           apply_vacation(u, d) =>
             /\ result'.message = "overlap" =>
                   \E v \in DOMAIN vacations :
                       /\ vacations[v].applicant = u
                       /\ vacations[v].status \in Active
                       /\ RangesMeet(fromisoformat(d.start_date),
                                     fromisoformat(d.end_date),
                                     fromisoformat(vacations[v].start_date),
                                     fromisoformat(vacations[v].end_date))
             /\ (can_use_annual_leave(UserByName(u).join_date) /\ OtherChecksPass(u, d))
                   => result'.success]_vars

\* a request for a day was admitted although a rejected request of the same
\* applicant covers that day and, were it counted, would exhaust the balance
C23_Witness ==
    /\ result.op = "apply" /\ result.success
    /\ \E v, w \in DOMAIN vacations :
          /\ w = next_id - 1 /\ v # w
          /\ vacations[v].applicant = vacations[w].applicant
          /\ vacations[v].status = REJECTED
          /\ RangesMeet(vacations[w].start_date, vacations[w].end_date,
                        vacations[v].start_date, vacations[v].end_date)
          /\ Contribution(vacations[v]) + Contribution(vacations[w])
                 > calculate_annual_leave(UserByName(vacations[w].applicant).join_date)

----------------------------------------------------------------------------
(* C24: a Submit of a kind other than annual or half-day, which draws      *)
(* nothing from the annual pool, is never denied for tenure.               *)
C24_TenureGateByKind ==
    [][\A u \in TenureApplicants, d \in TenureData :
          (/\ apply_vacation(u, d)
           /\ d.vacation_type \notin {"annual", "am_half_day", "pm_half_day"})
              => result'.message # "ineligible"]_vars

----------------------------------------------------------------------------
(* C25: a Submit during which the read of the applicant's active requests  *)
(* fails, in the overlap check or in the used-days computation, returns a  *)
(* failure and creates no request.                                         *)
C25_ReadFailureAborts ==
    [][\A u \in SubmitterApplicants, d \in SubmitterData :
          (apply_vacation_overlap_read_fails(u, d)
             \/ apply_vacation_used_read_fails(u, d))
              => (~result'.success /\ vacations' = vacations)]_vars

----------------------------------------------------------------------------
(* C26: for every role string that _validate_role accepts, the decorator   *)
(* approval_required, the service tests _is_team_leader, _is_part_leader   *)
(* and _has_approval_permission, and the role query of the notifications   *)
(* give the same answer on who is a part-leader and who is a team-leader.  *)
C26_RoleTestsAgree ==
    \A x \in DOMAIN users :
        LET r == users[x].role
        IN  _validate_role(r) =>
              /\ approval_required(r) <=> _has_approval_permission(r)
              /\ _is_team_leader(r) <=> role_contains(r, TEAM_LEADER)
              /\ _is_part_leader(r) <=> role_contains(r, PART_LEADER)

----------------------------------------------------------------------------
(* C27: an Approve issued by the applicant of the request never succeeds,  *)
(* whatever roles the applicant holds.                                     *)
C27_NoSelfApproval ==
    [][\A id \in Ids, u \in NoticeActors :
          (/\ id \in DOMAIN vacations
           /\ vacations[id].applicant = u
           /\ approve_vacation(id, u))
              => ~result'.success]_vars

----------------------------------------------------------------------------
(* C28: for every employee u and every pending request r, r is in the list *)
(* get_pending_approvals returns to u exactly when an Approve of r by u    *)
(* would succeed; so a part-leader can approve a pending_part_leader       *)
(* request only of an applicant of the part-leader's own department.       *)
ListedFor(name) ==
    LET listed == get_pending_approvals(name)
    IN  {listed[i] : i \in DOMAIN listed}

C28_ListMatchesPermission ==
    \A name \in ListViewers, id \in DOMAIN vacations :
        vacations[id].status \in Pending =>
            (id \in ListedFor(name) <=> approve_reaches_commit(id, name))

----------------------------------------------------------------------------
(* C29: in every reachable state in which the directory holds at least one *)
(* part-leader and at least one team-leader, every request in              *)
(* pending_part_leader or pending_team_leader is in the list               *)
(* get_pending_approvals returns to at least one employee.                 *)
C29_PendingVisible ==
    (/\ \E x \in DOMAIN users : HoldsRole(users[x].role, PART_LEADER)
     /\ \E x \in DOMAIN users : HoldsRole(users[x].role, TEAM_LEADER))
        => \A id \in DOMAIN vacations :
              vacations[id].status \in Pending =>
                  \E x \in DOMAIN users : id \in ListedFor(users[x].username)

----------------------------------------------------------------------------
(* C30: a successful Submit adds one request and changes no other; when    *)
(* the applicant cancels that request in the state the Submit left, the    *)
(* Cancel succeeds, the stored requests with their statuses and every      *)
(* applicant's used days are what they were before the Submit, and the     *)
(* same Submit is admitted again.                                          *)

\* the state is the one a successful Submit of request id by u has left
JustSubmitted(id, u) ==
    /\ result.op = "apply" /\ result.success
    /\ id = next_id - 1
    /\ id \in DOMAIN vacations
    /\ vacations[id].applicant = u

\* the table without request id
Without(table, id) == [v \in DOMAIN table \ {id} |-> table[v]]

\* the form a stored request was submitted with
FormOf(row) ==
    [vacation_type |-> row.vacation_type, start_date |-> row.start_date,
     end_date |-> row.end_date, reason |-> row.reason, backup |-> row.backup]

C30_SubmitCancelRoundTrip ==
    [][/\ \A u \in SubmitterApplicants, d \in SubmitterData :
            (result'.op = "apply" /\ result'.success /\ apply_vacation(u, d)) =>
                /\ next_id \notin DOMAIN vacations
                /\ next_id' = next_id + 1
                /\ DOMAIN vacations' = DOMAIN vacations \cup {next_id}
                /\ Without(vacations', next_id) = vacations
                /\ vacations'[next_id].applicant = u
                /\ FormOf(vacations'[next_id]) = d
       /\ \A u \in SubmitterApplicants, id \in Ids :
            (JustSubmitted(id, u) /\ cancel_vacation(id, u)) =>
                /\ result'.success
                /\ vacations' = Without(vacations, id)
                /\ \A n \in SubmitterApplicants :
                      /\ _calculate_used_annual_leave(n)'
                            = Drawn(Without(vacations, id), n)
                      /\ Drawn(vacations', n) = Drawn(Without(vacations, id), n)
                /\ \A d \in SubmitterData :
                      d = FormOf(vacations[id]) => apply_reaches_commit(u, d)']_vars

\* request 2 has been submitted and cancelled again while request 1 stays
C30_Witness ==
    /\ result.op = "cancel" /\ result.success
    /\ next_id = 3
    /\ DOMAIN vacations = {1}
    /\ vacations[1].status = APPROVED
    /\ vacations[1].vacation_type = "am_half_day"

----------------------------------------------------------------------------
(* C31: after any sequence of create_user, update_user, delete_user and    *)
(* workflow operations, the applicant of every stored request is the       *)
(* username of an existing user and no two users share a username.         *)
C31_ApplicantsExist ==
    /\ \A v \in DOMAIN vacations : UserExists(vacations[v].applicant)
    /\ \A x \in DOMAIN users, y \in DOMAIN users :
          users[x].username = users[y].username => x = y

====
